---------------------------- MODULE Spec2Model ----------------------------
(***************************************************************************)
(* A model of the channel link endpoint of polevpn/netstack,               *)
(* tcpip/link/channel/channel.go: an Endpoint that stores outbound packets *)
(* in a Go channel and injects inbound packets into an attached            *)
(* dispatcher, guarded by a sync.RWMutex and a closed flag.                *)
(*                                                                         *)
(* Goroutines are the members of Procs.  Each one calls the public methods *)
(* of one shared Endpoint, one call at a time, and a call is executed one  *)
(* statement per step, so that every interleaving of the statements of     *)
(* concurrent calls is a behaviour of the model.  Two statements are taken  *)
(* in one step only where no other goroutine can tell: taking e.mu and     *)
(* then reading e.closed, which changes only under the exclusive hold, and *)
(* setting e.closed and then releasing the exclusive hold.  Goroutines     *)
(* between calls are alike, so the next call is made by the first of them. *)
(*                                                                         *)
(* The Go runtime is modelled by what the language defines:                *)
(*   - a channel of capacity cap is a FIFO buffer; a receiver that finds   *)
(*     the buffer empty on an open channel parks; a send hands its value   *)
(*     to a parked receiver if there is one, else appends it if the buffer *)
(*     has room, else (inside a select with a default) is not taken;       *)
(*     a receive from a closed, empty channel yields the zero value at     *)
(*     once; close of a closed channel and send on a closed channel panic; *)
(*   - sync.RWMutex: any number of shared holds or one exclusive hold; a   *)
(*     Lock that has announced itself keeps new RLocks out;                *)
(*   - a method call through a nil interface panics;                       *)
(*   - a panic ends the process.                                           *)
(*                                                                         *)
(* The dispatcher is not the endpoint's: its DeliverNetworkPacket counts   *)
(* the delivery and returns; under SpecReentrant it may first call         *)
(* WritePacket on the endpoint that delivers to it.                        *)
(***************************************************************************)
EXTENDS Naturals, Sequences, FiniteSets

\* ------------------------------------------------------------------ bounds
NumProcs == 2       \* goroutines calling the endpoint
MaxCap == 2         \* largest queue capacity given to New
MaxCalls == 3       \* method calls started in one behaviour
MaxBatch == 2       \* descriptors given to a WritePackets call (or none)
MaxCount == 2       \* Drain's counter is followed up to this value on a closed queue

Procs == 1..NumProcs

VARIABLES
    cap,            \* New's size: cap(e.ch)
    ch,             \* e.ch: the buffered PacketInfo values, oldest first
    chClosed,       \* e.ch has been closed by close(e.ch)
    closed,         \* e.closed
    dispatcher,     \* e.dispatcher: "nil" or "stub"
    mtu,            \* e.mtu
    linkAddr,       \* e.linkAddr
    GSO,            \* e.GSO
    muR,            \* e.mu: number of shared holds
    muW,            \* e.mu: the goroutine whose Lock is pending or held, or 0
    fatal,          \* "none", or the panic that ended the process
    delivered,      \* DeliverNetworkPacket invocations counted by the dispatcher
    op,             \* per goroutine: the method it is in, "none" between calls
    pc,             \* per goroutine: its position in that method, "idle" between calls
    ret,            \* per goroutine: the values its call is about to return
    n,              \* per goroutine: WritePackets' n, Drain's c
    i,              \* per goroutine: WritePackets' index into hdrs
    K,              \* per goroutine: len(hdrs) of its WritePackets call
    after,          \* per goroutine: its call started after a Close had returned
    calls,          \* calls started so far
    closeReturned,  \* some Close call has returned
    injected,       \* InjectLinkAddr calls that have returned
    lone,           \* the goroutine whose call began with all others between
                    \* calls, none of which has made a call since; or 0
    len0,           \* len(e.ch) as that call found it
    phase,          \* history: "writes" (only WritePacket calls so far),
                    \* "drain" (then one Drain, started when they had returned), "other"
    age,            \* history, one entry per entry of ch: the rank of that record's
                    \* acceptance among the records in flight (1: accepted first)
    got             \* history, per goroutine: that rank for the record its Read has
                    \* received and not yet returned, or 0

chanVars == <<cap, ch, chClosed>>
epVars == <<closed, dispatcher>>
cfgVars == <<mtu, linkAddr, GSO>>
muVars == <<muR, muW>>
locVars == <<n, i>>
callVars == <<op, K, after>>
histVars == <<calls, phase>>
loneVars == <<lone, len0>>
ageVars == <<age, got>>
vars == <<cap, ch, chClosed, closed, dispatcher, muR, muW, fatal, delivered,
          op, pc, ret, n, i, K, after, calls, closeReturned,
          injected, lone, len0, phase, age, got, mtu, linkAddr, GSO>>

Ops == {"Attach", "InjectLinkAddr", "WritePacket", "WritePackets",
        "WriteRawPacket", "Read", "Drain", "Close"}

\* ------------------------------------------------------------- values
\* The PacketInfo built by a call: named by the calling goroutine and the
\* descriptor's index (0 for WritePacket and WriteRawPacket).
PacketInfo(t, idx) == <<t, idx>>

NoRet == [n |-> 0, err |-> "none", pkt |-> <<>>]
Returns(count, e, p) == [n |-> count, err |-> e, pkt |-> p]

ErrBadLinkEndpoint == "ErrBadLinkEndpoint"
ErrChannelClosed == "link channel closed"

\* ------------------------------------------------- the channel e.ch
\* Goroutines blocked in Read's receive.
Parked == {t \in Procs : pc[t] = "parked"}

\* A value sent to the buffer joins it at the back.
Enqueue_Front(q, x) == <<x>> \o q
Enqueue(q, x) == Append(q, x)

\* The records in flight, accepted and not yet returned by a Read or removed
\* by a Drain, by their ranks; the rank of the next record accepted; and a
\* rank x once the record of rank r (0: none) is no longer in flight.
InFlight == ({age[j] : j \in 1..Len(age)} \cup {got[t] : t \in Procs}) \ {0}
Newest == Cardinality(InFlight) + 1
Without(x, r) == IF r # 0 /\ x > r THEN x - 1 ELSE x

\* The buffer has room for one more value.
HasRoom_OffByOne == Len(ch) <= cap
HasRoom == Len(ch) < cap

\* (A plain  e.ch <- p  instead: with no room and no receiver it waits.)
TrySend_Blocking(p) ==
    IF chClosed
    THEN {[ok |-> FALSE, buf |-> ch, rcv |-> 0, panic |-> TRUE]}
    ELSE IF Parked # {}
    THEN {[ok |-> TRUE, buf |-> ch, rcv |-> r, panic |-> FALSE] : r \in Parked}
    ELSE IF Len(ch) < cap
    THEN {[ok |-> TRUE, buf |-> Enqueue(ch, p), rcv |-> 0, panic |-> FALSE]}
    ELSE {}

\* The outcomes of  select { case e.ch <- p: ... default: ... } :
\* what the buffer becomes, whether the send case ran, the receiver handed
\* the value (0: none), and whether the statement panicked.
TrySend(p) ==
    IF chClosed
    THEN {[ok |-> FALSE, buf |-> ch, rcv |-> 0, panic |-> TRUE]}
    ELSE IF Parked # {}
    THEN {[ok |-> TRUE, buf |-> ch, rcv |-> r, panic |-> FALSE] : r \in Parked}
    ELSE IF HasRoom
    THEN {[ok |-> TRUE, buf |-> Enqueue(ch, p), rcv |-> 0, panic |-> FALSE]}
    ELSE {[ok |-> FALSE, buf |-> ch, rcv |-> 0, panic |-> FALSE]}

\* f with goroutine r (if any) set to v.
Wake(f, r, v) == IF r = 0 THEN f ELSE [f EXCEPT ![r] = v]

\* ------------------------------------------------- the mutex e.mu
RLockReady_Unguarded == TRUE
RLockReady == muW = 0

\* Lock, once announced, is held when the shared holds are gone.
LockReady_Unguarded == TRUE
LockReady == muR = 0

RLock == /\ RLockReady
         /\ muR' = muR + 1
         /\ muW' = muW

RUnlock == /\ muR' = muR - 1
           /\ muW' = muW

\* ------------------------------------------------------------- New
\* The endpoint New returns, with e.dispatcher = d.
New(d) ==
    /\ cap \in 0..MaxCap
    /\ ch = <<>>
    /\ chClosed = FALSE
    /\ closed = FALSE
    /\ dispatcher = d
    /\ muR = 0
    /\ muW = 0
    /\ fatal = "none"
    /\ delivered = 0
    /\ op = [t \in Procs |-> "none"]
    /\ pc = [t \in Procs |-> "idle"]
    /\ ret = [t \in Procs |-> NoRet]
    /\ n = [t \in Procs |-> 0]
    /\ i = [t \in Procs |-> 0]
    /\ K = [t \in Procs |-> 0]
    /\ after = [t \in Procs |-> FALSE]
    /\ calls = 0
    /\ closeReturned = FALSE
    /\ injected = 0
    /\ lone = 0
    /\ len0 = 0
    /\ phase = "writes"
    /\ age = <<>>
    /\ got = [t \in Procs |-> 0]

\* New's mtu and linkAddr arguments; New leaves the exported field GSO unset,
\* and the endpoint's owner may set it before the endpoint is used.
MTUs == {576, 1500}
LinkAddrs == {"", "AA:BB"}
Fields(m, a, g) == mtu = m /\ linkAddr = a /\ GSO = g

Init == New("nil") /\ Fields(1500, "AA:BB", FALSE)

\* ---------------------------------------------------------- accessors
\* What MTU, LinkAddress and Capabilities return in the current state.
MTU == mtu
LinkAddress == linkAddr

CapabilityHardwareGSO == "CapabilityHardwareGSO"
Capabilities_WhileOpen == IF GSO /\ ~closed THEN {CapabilityHardwareGSO} ELSE {}
Capabilities == IF GSO THEN {CapabilityHardwareGSO} ELSE {}

\* ------------------------------------------------- calls and returns
Running == fatal = "none"
Others(t) == Procs \ {t}
AllIdle(S) == \A u \in S : pc[u] = "idle"

FirstPc(o) ==
    CASE o = "Attach" -> "store"
      [] o = "Read" -> "recv"
      [] o = "Drain" -> "drain"
      [] o = "Close" -> "lock"
      [] OTHER -> "rlock"

\* Goroutine t calls method o (WritePackets with k descriptors).
Call(t) ==
    /\ Running
    /\ pc[t] = "idle"
    /\ \A u \in Procs : u < t => pc[u] # "idle"
    /\ calls < MaxCalls
    /\ \E o \in Ops : \E k \in {0, MaxBatch} :
        /\ (o # "WritePackets") => k = 0
        /\ op' = [op EXCEPT ![t] = o]
        /\ pc' = [pc EXCEPT ![t] = FirstPc(o)]
        /\ K' = [K EXCEPT ![t] = k]
        /\ phase' = IF phase = "writes" /\ o = "WritePacket" THEN "writes"
                    ELSE IF phase = "writes" /\ o = "Drain" /\ AllIdle(Others(t))
                    THEN "drain"
                    ELSE "other"
    /\ calls' = calls + 1
    /\ lone' = IF AllIdle(Others(t)) THEN t ELSE 0
    /\ len0' = IF AllIdle(Others(t)) THEN Len(ch) ELSE 0
    /\ after' = [after EXCEPT ![t] = closeReturned]
    /\ UNCHANGED <<chanVars, ageVars, epVars, cfgVars, muVars, fatal, delivered, ret,
                   locVars, closeReturned, injected>>

\* Goroutine t's call returns (the values in ret[t]) and its frame is gone.
Return(t) ==
    /\ pc' = [pc EXCEPT ![t] = "idle"]
    /\ op' = [op EXCEPT ![t] = "none"]
    /\ ret' = [ret EXCEPT ![t] = NoRet]
    /\ n' = [n EXCEPT ![t] = 0]
    /\ i' = [i EXCEPT ![t] = 0]
    /\ K' = [K EXCEPT ![t] = 0]
    /\ lone' = IF lone = t THEN 0 ELSE lone
    /\ len0' = IF lone = t THEN 0 ELSE len0
    /\ after' = [after EXCEPT ![t] = FALSE]

\* ------------------------------------------------------------- Attach
Attach(t) ==
    /\ Running
    /\ op[t] = "Attach"
    /\ pc[t] = "store"
    /\ dispatcher' = "stub"
    /\ Return(t)
    /\ UNCHANGED <<chanVars, ageVars, closed, muVars, fatal, delivered, histVars, cfgVars,
                   closeReturned, injected>>

\* ------------------------------------------- the closed check  if e.closed
IsClosed_Never == FALSE
IsClosed_Inverted == ~closed
IsClosed == closed

\* The statement  select { case e.ch <- p: default: }  run by t with outcome o:
\* t goes on to `to`, and a receiver handed the value is about to return it.
SendBy(t, p, o, to) ==
    /\ ch' = o.buf
    /\ fatal' = IF o.panic THEN "send on closed channel" ELSE fatal
    /\ pc' = Wake([pc EXCEPT ![t] = to], o.rcv, "ret")
    /\ age' = IF o.ok /\ o.rcv = 0 THEN Enqueue(age, Newest) ELSE age
    /\ got' = Wake(got, o.rcv, Newest)
    /\ UNCHANGED <<cap, chClosed>>

\* -------------------------------------------------------- WritePacket
WritePacket(t) ==
    /\ Running
    /\ op[t] = "WritePacket"
    /\ \/ /\ pc[t] = "rlock"       \* e.mu.RLock(); if e.closed { return ... }
          /\ RLock
          /\ IF IsClosed
             THEN /\ ret' = [ret EXCEPT ![t] = Returns(0, ErrBadLinkEndpoint, <<>>)]
                  /\ pc' = [pc EXCEPT ![t] = "runlock"]
             ELSE /\ pc' = [pc EXCEPT ![t] = "send"]
                  /\ ret' = ret
          /\ UNCHANGED <<chanVars, ageVars, fatal, locVars, callVars, loneVars>>
       \/ /\ pc[t] = "send"        \* select { case e.ch <- p: default: }
          /\ \E o \in TrySend(PacketInfo(t, 0)) :
                /\ SendBy(t, PacketInfo(t, 0), o, "runlock")
                /\ ret' = Wake([ret EXCEPT ![t] = Returns(0, "nil", <<>>)], o.rcv,
                               Returns(0, "nil", PacketInfo(t, 0)))
          /\ UNCHANGED <<muVars, locVars, callVars, loneVars>>
       \/ /\ pc[t] = "runlock"     \* deferred e.mu.RUnlock(), and return
          /\ RUnlock
          /\ Return(t)
          /\ UNCHANGED <<chanVars, ageVars, fatal>>
    /\ UNCHANGED <<epVars, delivered, histVars, cfgVars, closeReturned, injected>>

\* ----------------------------------------------------- WriteRawPacket
WriteRawPacket(t) ==
    /\ Running
    /\ op[t] = "WriteRawPacket"
    /\ \/ /\ pc[t] = "rlock"       \* e.mu.RLock(); if e.closed { return ... }
          /\ RLock
          /\ IF IsClosed
             THEN /\ ret' = [ret EXCEPT ![t] = Returns(0, ErrBadLinkEndpoint, <<>>)]
                  /\ pc' = [pc EXCEPT ![t] = "runlock"]
             ELSE /\ pc' = [pc EXCEPT ![t] = "send"]
                  /\ ret' = ret
          /\ UNCHANGED <<chanVars, ageVars, fatal, locVars, callVars, loneVars>>
       \/ /\ pc[t] = "send"        \* select { case e.ch <- p: default: }
          /\ \E o \in TrySend(PacketInfo(t, 0)) :
                /\ SendBy(t, PacketInfo(t, 0), o, "runlock")
                /\ ret' = Wake([ret EXCEPT ![t] = Returns(0, "nil", <<>>)], o.rcv,
                               Returns(0, "nil", PacketInfo(t, 0)))
          /\ UNCHANGED <<muVars, locVars, callVars, loneVars>>
       \/ /\ pc[t] = "runlock"     \* deferred e.mu.RUnlock(), and return
          /\ RUnlock
          /\ Return(t)
          /\ UNCHANGED <<chanVars, ageVars, fatal>>
    /\ UNCHANGED <<epVars, delivered, histVars, cfgVars, closeReturned, injected>>

\* ------------------------------------------------------- WritePackets
\* The index the descriptor loop goes on with after the default case of its
\* select:  break packetLoop  leaves the loop, as if the index were len(hdrs).
AfterFull_Skip(idx, k) == idx + 1
AfterFull(idx, k) == k

WritePackets(t) ==
    /\ Running
    /\ op[t] = "WritePackets"
    /\ \/ /\ pc[t] = "rlock"       \* e.mu.RLock(); if e.closed { return ... }
          /\ RLock
          /\ IF IsClosed
             THEN /\ ret' = [ret EXCEPT ![t] = Returns(0, ErrBadLinkEndpoint, <<>>)]
                  /\ pc' = [pc EXCEPT ![t] = "runlock"]
             ELSE /\ pc' = [pc EXCEPT ![t] = "loop"]
                  /\ ret' = ret
          /\ UNCHANGED <<chanVars, ageVars, fatal, locVars, callVars, loneVars>>
       \/ /\ pc[t] = "loop"        \* one turn of the loop over hdrs
          /\ i[t] < K[t]
          /\ \E o \in TrySend(PacketInfo(t, i[t])) :
                /\ SendBy(t, PacketInfo(t, i[t]), o, "loop")
                /\ ret' = Wake(ret, o.rcv, Returns(0, "nil", PacketInfo(t, i[t])))
                /\ n' = [n EXCEPT ![t] = IF o.ok THEN n[t] + 1 ELSE n[t]]
                /\ i' = [i EXCEPT ![t] = IF o.ok THEN i[t] + 1
                                         ELSE AfterFull(i[t], K[t])]
          /\ UNCHANGED <<muVars, callVars, loneVars>>
       \/ /\ pc[t] = "loop"        \* the loop is over: return n, nil
          /\ i[t] >= K[t]
          /\ ret' = [ret EXCEPT ![t] = Returns(n[t], "nil", <<>>)]
          /\ pc' = [pc EXCEPT ![t] = "runlock"]
          /\ UNCHANGED <<chanVars, ageVars, muVars, fatal, locVars, callVars, loneVars>>
       \/ /\ pc[t] = "runlock"     \* deferred e.mu.RUnlock(), and return
          /\ RUnlock
          /\ Return(t)
          /\ UNCHANGED <<chanVars, ageVars, fatal>>
    /\ UNCHANGED <<epVars, delivered, histVars, cfgVars, closeReturned, injected>>

\* ----------------------------------------------------- InjectLinkAddr
\* InjectInbound delegates to InjectLinkAddr with an empty remote address.
InjectLinkAddr(t) ==
    /\ Running
    /\ op[t] = "InjectLinkAddr"
    /\ \/ /\ pc[t] = "rlock"       \* e.mu.RLock(); if e.closed { return }
          /\ RLock
          /\ pc' = [pc EXCEPT ![t] = IF IsClosed THEN "runlock" ELSE "invoke"]
          /\ UNCHANGED <<fatal, delivered, injected, ret, locVars, callVars, loneVars>>
       \/ /\ pc[t] = "invoke"      \* e.dispatcher.DeliverNetworkPacket(...) is entered
          /\ IF dispatcher = "nil"
             THEN /\ fatal' = "nil pointer dereference"
                  /\ UNCHANGED <<pc, delivered>>
             ELSE /\ delivered' = delivered + 1
                  /\ pc' = [pc EXCEPT ![t] = "deliver"]
                  /\ fatal' = fatal
          /\ UNCHANGED <<muVars, injected, ret, locVars, callVars, loneVars>>
       \/ /\ pc[t] = "deliver"     \* ... and returns
          /\ pc' = [pc EXCEPT ![t] = "runlock"]
          /\ UNCHANGED <<muVars, fatal, delivered, injected, ret, locVars, callVars, loneVars>>
       \/ /\ pc[t] = "runlock"     \* deferred e.mu.RUnlock(), and return
          /\ RUnlock
          /\ Return(t)
          /\ injected' = injected + 1
          /\ UNCHANGED <<fatal, delivered>>
    /\ UNCHANGED <<chanVars, ageVars, epVars, histVars, cfgVars, closeReturned>>

\* --------------------------------------------------------------- Read
\* What  pkgInfo, ok := <-e.ch  yields at once: a buffered value first, the
\* zero value with ok = false on a closed, empty channel.
RecvFails_ClosedFirst == chClosed
RecvFails_Never == FALSE
RecvFails == ch = <<>> /\ chClosed

Read(t) ==
    /\ Running
    /\ op[t] = "Read"
    /\ \/ /\ pc[t] = "recv"        \* pkgInfo, ok := <-e.ch
          /\ IF RecvFails
             THEN /\ ret' = [ret EXCEPT ![t] = Returns(0, ErrChannelClosed, <<>>)]
                  /\ pc' = [pc EXCEPT ![t] = "ret"]
                  /\ UNCHANGED <<ch, ageVars>>
             ELSE IF ch # <<>>
             THEN /\ ret' = [ret EXCEPT ![t] = Returns(0, "nil", Head(ch))]
                  /\ pc' = [pc EXCEPT ![t] = "ret"]
                  /\ ch' = Tail(ch)
                  /\ age' = Tail(age)
                  /\ got' = [got EXCEPT ![t] = Head(age)]
             ELSE /\ pc' = [pc EXCEPT ![t] = "parked"]
                  /\ UNCHANGED <<ch, ret, ageVars>>
          /\ UNCHANGED <<locVars, callVars, loneVars>>
       \/ /\ pc[t] = "ret"         \* return
          /\ Return(t)
          /\ ch' = ch
          /\ age' = [j \in 1..Len(age) |-> Without(age[j], got[t])]
          /\ got' = [u \in Procs |-> IF u = t THEN 0 ELSE Without(got[u], got[t])]
    /\ UNCHANGED <<cap, chClosed, epVars, muVars, fatal, delivered, histVars, cfgVars,
                   closeReturned, injected>>

\* -------------------------------------------------------------- Drain
\* One turn of  for { select { case <-e.ch: c++; default: return c } } :
\* the receive case runs whenever a receive would not block, which is also
\* so on a closed channel, where it yields the zero value.
RecvWouldBlock == ch = <<>> /\ ~chClosed

Drain(t) ==
    /\ Running
    /\ op[t] = "Drain"
    /\ \/ /\ pc[t] = "drain"
          /\ IF RecvWouldBlock
             THEN /\ ret' = [ret EXCEPT ![t] = Returns(n[t], "none", <<>>)]
                  /\ pc' = [pc EXCEPT ![t] = "ret"]
                  /\ UNCHANGED <<ch, n, ageVars>>
             ELSE /\ (ch = <<>>) => n[t] < MaxCount
                  /\ ch' = IF ch # <<>> THEN Tail(ch) ELSE ch
                  /\ age' = IF ch # <<>>
                            THEN [j \in 1..(Len(age) - 1) |-> Without(age[j + 1], Head(age))]
                            ELSE age
                  /\ got' = IF ch # <<>>
                            THEN [u \in Procs |-> Without(got[u], Head(age))]
                            ELSE got
                  /\ n' = [n EXCEPT ![t] = n[t] + 1]
                  /\ UNCHANGED <<pc, ret>>
          /\ UNCHANGED <<i, callVars, loneVars>>
       \/ /\ pc[t] = "ret"         \* return c
          /\ Return(t)
          /\ UNCHANGED <<ch, ageVars>>
    /\ UNCHANGED <<cap, chClosed, epVars, muVars, fatal, delivered, histVars, cfgVars,
                   closeReturned, injected>>

\* -------------------------------------------------------------- Close
\* if !e.closed
CloseNeeded_Always == TRUE
CloseNeeded == ~closed

Close(t) ==
    /\ Running
    /\ op[t] = "Close"
    /\ \/ /\ pc[t] = "lock"        \* e.mu.Lock(): announce, keeping new RLocks out
          /\ muW = 0
          /\ muW' = t
          /\ pc' = [pc EXCEPT ![t] = "lockwait"]
          /\ UNCHANGED <<muR, chanVars, ageVars, closed, fatal, ret, closeReturned,
                         locVars, callVars, loneVars>>
       \/ /\ pc[t] = "lockwait"    \* ... wait for the shared holds to go; if !e.closed
          /\ LockReady
          /\ pc' = [pc EXCEPT ![t] = IF CloseNeeded THEN "closech" ELSE "unlock"]
          /\ UNCHANGED <<muVars, chanVars, ageVars, closed, fatal, ret, closeReturned,
                         locVars, callVars, loneVars>>
       \/ /\ pc[t] = "closech"     \* close(e.ch): every parked receiver returns
          /\ IF chClosed
             THEN /\ fatal' = "close of closed channel"
                  /\ UNCHANGED <<chClosed, pc, ret>>
             ELSE /\ chClosed' = TRUE
                  /\ pc' = [u \in Procs |-> IF u = t THEN "setclosed"
                                            ELSE IF u \in Parked THEN "ret"
                                            ELSE pc[u]]
                  /\ ret' = [u \in Procs |-> IF u \in Parked
                                             THEN Returns(0, ErrChannelClosed, <<>>)
                                             ELSE ret[u]]
                  /\ fatal' = fatal
          /\ UNCHANGED <<muVars, cap, ch, ageVars, closed, closeReturned, locVars, callVars,
                         loneVars>>
       \/ /\ pc[t] \in {"setclosed", "unlock"}
                                   \* e.closed = true; deferred e.mu.Unlock(); return
          /\ closed' = IF pc[t] = "setclosed" THEN TRUE ELSE closed
          /\ muW' = 0
          /\ Return(t)
          /\ closeReturned' = TRUE
          /\ UNCHANGED <<muR, chanVars, ageVars, fatal>>
    /\ UNCHANGED <<dispatcher, delivered, histVars, cfgVars, injected>>

\* ---------------------------------------------------------------- Spec
Next ==
    \E t \in Procs :
        \/ Call(t)
        \/ Attach(t)
        \/ InjectLinkAddr(t)
        \/ WritePacket(t)
        \/ WritePackets(t)
        \/ WriteRawPacket(t)
        \/ Read(t)
        \/ Drain(t)
        \/ Close(t)

Spec == Init /\ [][Next]_vars

\* The endpoint as the stack uses it on its send path, with no consumer: the
\* dispatcher is attached before traffic flows, and nobody calls Read or
\* Drain.  Every goroutine inside a call is scheduled again and again, and the
\* dispatcher's DeliverNetworkPacket returns.
InitAttached == New("stub") /\ Fields(1500, "AA:BB", FALSE)

CallNoConsumer(t) == Call(t) /\ op'[t] \notin {"Read", "Drain"}

Work(t) ==
    \/ Attach(t)
    \/ InjectLinkAddr(t)
    \/ WritePacket(t)
    \/ WritePackets(t)
    \/ WriteRawPacket(t)
    \/ Close(t)

NextNoConsumer == \E t \in Procs : CallNoConsumer(t) \/ Work(t)

SpecNoConsumer ==
    /\ InitAttached
    /\ [][NextNoConsumer]_vars
    /\ \A t \in Procs : WF_vars(Work(t))

\* The attached endpoint with producers and consumers: every goroutine inside
\* a call is scheduled again and again (a goroutine blocked in Read's receive
\* or waiting for e.mu has no step to take), and DeliverNetworkPacket returns.
Step(t) == Work(t) \/ Read(t) \/ Drain(t)

\* The endpoint made with any of New's arguments, GSO set or not, under all
\* the operations.
InitConfig ==
    /\ New("nil")
    /\ \E m \in MTUs : \E a \in LinkAddrs : \E g \in BOOLEAN : Fields(m, a, g)

SpecConfig == InitConfig /\ [][Next]_vars

SpecFair ==
    /\ InitAttached
    /\ [][Next]_vars
    /\ \A t \in Procs : WF_vars(Step(t))

\* The endpoint attached to a dispatcher whose DeliverNetworkPacket may call
\* back into the endpoint before it returns, as a network stack does when it
\* answers an inbound packet on the spot: inside InjectLinkAddr's shared hold,
\* in the injecting goroutine, it calls e.WritePacket, whose return value it
\* drops, and then returns.
Reenter(t) ==
    /\ Running
    /\ op[t] = "InjectLinkAddr"
    /\ \/ /\ pc[t] = "deliver"     \* DeliverNetworkPacket calls e.WritePacket
          /\ pc' = [pc EXCEPT ![t] = "in.rlock"]
          /\ UNCHANGED <<chanVars, ageVars, muVars, fatal, ret>>
       \/ /\ pc[t] = "in.rlock"    \* e.mu.RLock(); if e.closed { return ... }
          /\ RLock
          /\ pc' = [pc EXCEPT ![t] = IF IsClosed THEN "in.runlock" ELSE "in.send"]
          /\ UNCHANGED <<chanVars, ageVars, fatal, ret>>
       \/ /\ pc[t] = "in.send"     \* select { case e.ch <- p: default: }
          /\ \E o \in TrySend(PacketInfo(t, 0)) :
                /\ SendBy(t, PacketInfo(t, 0), o, "in.runlock")
                /\ ret' = Wake(ret, o.rcv, Returns(0, "nil", PacketInfo(t, 0)))
          /\ UNCHANGED muVars
       \/ /\ pc[t] = "in.runlock"  \* deferred e.mu.RUnlock(); WritePacket returns,
          /\ RUnlock              \* and DeliverNetworkPacket after it
          /\ pc' = [pc EXCEPT ![t] = "runlock"]
          /\ UNCHANGED <<chanVars, ageVars, fatal, ret>>
    /\ UNCHANGED <<epVars, cfgVars, delivered, histVars, closeReturned, injected,
                   locVars, callVars, loneVars>>

NextReentrant == \E t \in Procs : Call(t) \/ Step(t) \/ Reenter(t)

SpecReentrant ==
    /\ InitAttached
    /\ [][NextReentrant]_vars
    /\ \A t \in Procs : WF_vars(Step(t) \/ Reenter(t))

\* ---------------------------------------------------------- properties
Min(a, b) == IF a <= b THEN a ELSE b
WriteOps == {"WritePacket", "WritePackets", "WriteRawPacket"}
\* Goroutine t takes a step.
Steps(t) == pc'[t] # pc[t] \/ n'[t] # n[t]

\* C1: on a new endpoint of capacity C, after N WritePacket calls (and nothing
\* else) have returned, a Drain that runs with no other call beside it returns
\* min(N, C).  In phase "drain" the calls made so far are those N WritePackets
\* and this Drain, so N = calls - 1.
C1_DrainAfterWrites ==
    \A t \in Procs :
        (phase = "drain" /\ op[t] = "Drain" /\ pc[t] = "ret")
            => ret[t].n = Min(calls - 1, cap)

\* More writes than the queue holds: the Drain reports the capacity.
C1_Witness ==
    \E t \in Procs :
        /\ phase = "drain" /\ op[t] = "Drain" /\ pc[t] = "ret"
        /\ cap > 0 /\ calls - 1 > cap
        /\ ret[t].n = cap
\* C2: once a Close call has returned, a WritePacket, WritePackets or
\* WriteRawPacket call that starts afterwards never reaches its enqueue, is
\* about to return ErrBadLinkEndpoint (with count 0) once it has read the
\* flag, and none of its steps changes the queue, whatever the queue holds and
\* whatever the other goroutines do.
C2_WriteAfterClose ==
    /\ [](\A t \in Procs :
            (after[t] /\ op[t] \in WriteOps)
                => /\ pc[t] \in {"rlock", "runlock"}
                   /\ n[t] = 0
                   /\ pc[t] = "runlock"
                        => ret[t] = Returns(0, ErrBadLinkEndpoint, <<>>))
    /\ [][\A t \in Procs :
            (after[t] /\ op[t] \in WriteOps /\ Steps(t))
                => (ch' = ch /\ chClosed' = chClosed)]_vars

\* A WritePackets call made after Close, on a queue that still holds a packet,
\* is about to return the error.
C2_Witness ==
    \E t \in Procs :
        /\ after[t] /\ op[t] = "WritePackets" /\ K[t] > 0 /\ pc[t] = "runlock"
        /\ ret[t].err = ErrBadLinkEndpoint
        /\ ch # <<>>

\* C3: once a Close call has returned, no goroutine is inside the dispatcher
\* or about to enter it, and the dispatcher is never invoked again: an inject
\* call that reads the flag after Close, even one that began before Close
\* returned, delivers nothing.
C3_NoDeliveryAfterClose ==
    /\ [](closeReturned =>
            \A t \in Procs : ~(op[t] = "InjectLinkAddr" /\ pc[t] \in {"invoke", "deliver"}))
    /\ [][closeReturned => delivered' = delivered]_vars

\* An inject call that began before Close returned and took the shared hold
\* after it is about to return without a delivery.
C3_Witness ==
    /\ closeReturned
    /\ dispatcher = "stub"
    /\ delivered = 0
    /\ \E t \in Procs : op[t] = "InjectLinkAddr" /\ pc[t] = "runlock" /\ ~after[t]

\* C4: a Read completes with the channel-closed error exactly when, at that
\* moment, the queue has been closed and holds nothing; otherwise it completes
\* with a packet, and when the queue holds packets it is the oldest one, which
\* leaves the queue, before or after Close alike.  (The queue is closed by
\* Close's close(e.ch), one statement before e.closed is set.)
C4_ReadError ==
    [][\A t \in Procs :
        (op[t] = "Read" /\ pc[t] \in {"recv", "parked"} /\ pc'[t] = "ret")
            => /\ (ret'[t].err = ErrChannelClosed) <=> (chClosed' /\ ch = <<>>)
               /\ (ret'[t].err # ErrChannelClosed)
                    => (ret'[t].err = "nil" /\ ret'[t].pkt # <<>>)
               /\ (ch # <<>>) => (ret'[t].pkt = Head(ch) /\ ch' = Tail(ch))]_vars

\* A Read made after Close has returned the first of two packets accepted
\* before the Close; the second is still queued.
C4_Witness ==
    \E t \in Procs : \E u \in Procs :
        /\ op[t] = "Read" /\ pc[t] = "ret" /\ after[t]
        /\ ret[t] = Returns(0, "nil", PacketInfo(u, 0))
        /\ ch = <<PacketInfo(u, 1)>>
        /\ closed

\* C5: a WritePackets call on an open endpoint, with no other call beside it,
\* given K descriptors when the queue has room for M < K, is about to return
\* (M, nil) with the packets of descriptors 0..M-1, in that order, as the
\* newest M of a now full queue.  And in any WritePackets call the loop either
\* has enqueued every descriptor before its index or has stopped: after a
\* failed enqueue it neither skips a descriptor nor tries again.
C5_PartialBatch ==
    \A t \in Procs :
        (op[t] = "WritePackets")
            => /\ (pc[t] = "loop") => (i[t] = n[t] \/ i[t] = K[t])
               /\ (lone = t /\ pc[t] = "runlock" /\ ret[t].err = "nil"
                        /\ cap - len0 < K[t])
                    => /\ ret[t].n = cap - len0
                       /\ Len(ch) = cap
                       /\ \A j \in 0..(cap - len0 - 1) :
                            ch[len0 + j + 1] = PacketInfo(t, j)

\* A lone call with two descriptors found room for one.
C5_Witness ==
    \E t \in Procs :
        /\ op[t] = "WritePackets" /\ lone = t /\ pc[t] = "runlock"
        /\ K[t] = MaxBatch /\ cap - len0 = MaxBatch - 1
        /\ ret[t] = Returns(MaxBatch - 1, "nil", <<>>)

\* C6: however many Close calls run, one after another or at once, the queue
\* is closed once (it never reopens, and no close(e.ch) finds it closed, which
\* would end the process), and a Close that finds e.closed set changes nothing
\* of the endpoint.
C6_CloseOnce ==
    /\ [](fatal # "close of closed channel")
    /\ [][/\ chClosed => chClosed'
          /\ \A t \in Procs :
                (op[t] = "Close" /\ closed /\ Steps(t))
                    => UNCHANGED <<chanVars, epVars, delivered, fatal>>]_vars

\* Of two Close calls running at once, one has returned and the other, which
\* began before that, has found e.closed set and is about to return.
C6_Witness ==
    /\ closeReturned
    /\ \E u \in Procs : op[u] = "Close" /\ pc[u] = "unlock" /\ ~after[u]

\* C7: with no Close call made and the process running, the dispatcher has
\* been invoked once for every inject call that has returned or has passed
\* its invocation; so when n concurrent calls have all returned, n times.
NoClose == ~chClosed /\ \A t \in Procs : op[t] # "Close"
Invoked == {t \in Procs : op[t] = "InjectLinkAddr" /\ pc[t] \in {"deliver", "runlock"}}

C7_OneDeliveryPerInject ==
    (NoClose /\ fatal = "none") => delivered = injected + Cardinality(Invoked)

\* Every goroutine is in an inject call at once, each has been through the
\* dispatcher and is about to return.
C7_Witness ==
    /\ NoClose
    /\ \A t \in Procs : op[t] = "InjectLinkAddr" /\ pc[t] = "runlock"
    /\ delivered = NumProcs
\* C8 as stated: a WritePacket or WriteRawPacket whose enqueue finds the open
\* endpoint's queue at capacity returns nil and leaves the queue and e.closed
\* as they are, and the frame is dropped: no goroutine receives it.
C8_DropAtCapacity_Original ==
    [][\A t \in Procs :
        (op[t] \in {"WritePacket", "WriteRawPacket"} /\ pc[t] = "send" /\ Steps(t)
            /\ ~closed /\ Len(ch) = cap)
            => /\ ret'[t] = Returns(0, "nil", <<>>)
               /\ UNCHANGED <<chanVars, closed>>
               /\ \A u \in Others(t) : ret'[u] = ret[u] /\ pc'[u] = pc[u]]_vars

\* C8 amended: the same, for a queue of capacity 1 or more, or of capacity 0
\* with no Read blocked on it.  (A queue of capacity 0 is always at capacity,
\* and a frame written while a Read is blocked on it is handed to that Read.)
C8_DropAtCapacity ==
    [][\A t \in Procs :
        (op[t] \in {"WritePacket", "WriteRawPacket"} /\ pc[t] = "send" /\ Steps(t)
            /\ ~closed /\ Len(ch) = cap /\ (cap > 0 \/ Parked = {}))
            => /\ ret'[t] = Returns(0, "nil", <<>>)
               /\ UNCHANGED <<chanVars, closed>>
               /\ \A u \in Others(t) : ret'[u] = ret[u] /\ pc'[u] = pc[u]]_vars

\* A lone WriteRawPacket found a queue of capacity 1 or more full and is
\* about to return nil, the queue still full.
C8_Witness ==
    \E t \in Procs :
        /\ op[t] = "WriteRawPacket" /\ pc[t] = "runlock" /\ lone = t
        /\ cap > 0 /\ len0 = cap /\ Len(ch) = cap
        /\ ret[t] = Returns(0, "nil", <<>>)

\* C9: with no Read or Drain ever executed, every call of WritePacket,
\* WritePackets, WriteRawPacket and InjectLinkAddr (and of Attach and Close)
\* returns, whatever the queue holds.
C9_WritesReturn ==
    \A t \in Procs : (pc[t] # "idle") ~> (pc[t] = "idle")

\* With no consumer, a WritePackets call on a full queue of capacity 1 or more
\* is about to return, having enqueued nothing.
C9_Witness ==
    \E t \in Procs :
        /\ op[t] = "WritePackets" /\ pc[t] = "runlock"
        /\ K[t] > 0 /\ ret[t] = Returns(0, "nil", <<>>)
        /\ cap > 0 /\ Len(ch) = cap

\* C10 as stated: a Drain with no other call beside it counts the packets it
\* removes, so that its count and the queue's length add up to the length it
\* found, and it is about to return that length, the queue empty; on an open
\* and on a closed endpoint alike.
C10_DrainCountsQueued ==
    \A t \in Procs :
        (op[t] = "Drain" /\ lone = t)
            => /\ n[t] + Len(ch) = len0
               /\ (pc[t] = "ret") => (ret[t].n = len0 /\ ch = <<>>)

\* C11: once the queue has been closed, every Read call in progress, blocked
\* before the Close or started after it, returns; and a Read that finds the
\* queue of an open endpoint empty stays in its receive until a writer hands
\* it a packet or Close closes the queue.
C11_CloseStopsReaders ==
    /\ \A t \in Procs : (op[t] = "Read" /\ chClosed) ~> (op[t] # "Read")
    /\ [][\A t \in Procs :
            (op[t] = "Read" /\ pc[t] \in {"recv", "parked"} /\ ch = <<>> /\ ~chClosed
                /\ pc'[t] \notin {"recv", "parked"})
                => \/ chClosed' /\ ret'[t].err = ErrChannelClosed
                   \/ \E u \in Others(t) :
                        /\ op[u] \in WriteOps /\ Steps(u)
                        /\ ret'[t].err = "nil" /\ ret'[t].pkt # <<>>]_vars

\* A Read that was blocked on the empty queue when Close closed it is about
\* to return the error, Close not yet having set e.closed.
C11_Witness ==
    \E t \in Procs : \E u \in Procs :
        /\ op[t] = "Read" /\ pc[t] = "ret" /\ ~after[t]
        /\ ret[t].err = ErrChannelClosed
        /\ op[u] = "Close" /\ pc[u] = "setclosed"

\* C12: a single Read consumer (no other Read call in progress) returns the
\* records in the order of their acceptance: the record a Read returns was
\* accepted before every record still queued, whichever callers wrote them
\* and however their calls interleaved; so the records of one caller, and of
\* one WritePackets call, come out in the order that caller enqueued them.
C12_FifoPerProducer ==
    /\ [](Len(age) = Len(ch))
    /\ [][\A t \in Procs :
            (op[t] = "Read" /\ pc[t] = "ret" /\ pc'[t] = "idle" /\ got[t] # 0
                /\ \A u \in Others(t) : op[u] # "Read")
                => \A j \in 1..Len(age) : got[t] < age[j]]_vars

\* A Read is about to return the first record of a WritePackets call while
\* the second record of that call and a record of another caller, accepted
\* between the two, are queued behind it.
C12_Witness ==
    \E t \in Procs : \E u \in Others(t) : \E v \in Procs \ {u} :
        /\ op[t] = "Read" /\ pc[t] = "ret" /\ got[t] = 1
        /\ ret[t].pkt = PacketInfo(u, 0)
        /\ ch = <<PacketInfo(v, 0), PacketInfo(u, 1)>>
        /\ age = <<2, 3>>

\* C13 as stated: no sequence or interleaving of the methods on an endpoint
\* made by New ends the process: no call panics, an InjectInbound on an open
\* endpoint that was never attached included.
C13_NeverFatal == fatal = "none"

\* C14: Capabilities reports the hardware-GSO bit exactly when the endpoint's
\* GSO flag was set when it was made, and no step of any operation changes
\* the flag or what Capabilities, MTU and LinkAddress return.
C14_CapabilitiesFixed ==
    /\ []((CapabilityHardwareGSO \in Capabilities) <=> GSO)
    /\ [][/\ GSO' = GSO
          /\ Capabilities' = Capabilities
          /\ MTU' = MTU
          /\ LinkAddress' = LinkAddress]_vars

\* An endpoint made with GSO set still reports the bit after every call the
\* bound allows, a Close among them.
C14_Witness ==
    /\ GSO /\ closed /\ calls = MaxCalls
    /\ Capabilities = {CapabilityHardwareGSO}
    /\ MTU = 576 /\ LinkAddress = ""

\* C15 as stated: the write of e.dispatcher by Attach and its read by
\* InjectLinkAddr exclude each other: no goroutine is at Attach's assignment
\* while another, inside InjectLinkAddr's shared hold, is at the call that
\* reads e.dispatcher.  (Where the two do meet, the read yields the old or the
\* new value or a mix of the two: the call panics or delivers, as it does when
\* the steps are taken one after the other.)
C15_DispatcherGuarded ==
    \A t \in Procs : \A u \in Procs :
        ~(/\ op[t] = "Attach" /\ pc[t] = "store"
          /\ op[u] = "InjectLinkAddr" /\ pc[u] = "invoke" /\ muR > 0)

\* C16: e.closed goes from false to true and never back, only a step of a
\* Close call changes it, and whenever an inject or write call holds the
\* shared lock, e.closed is true exactly when the queue has been closed.
SharedHolders ==
    {t \in Procs : op[t] \in WriteOps \cup {"InjectLinkAddr"} /\ pc[t] # "rlock"}

C16_ClosedMonotonic ==
    /\ [](SharedHolders # {} => (closed <=> chClosed))
    /\ [][/\ closed => closed'
          /\ closed' # closed => \E t \in Procs : op[t] = "Close" /\ Steps(t)]_vars

\* A write call that began while a Close was under way took the shared lock
\* once the Close was done and holds it with the flag set and the queue closed.
C16_Witness ==
    \E t \in Procs :
        /\ t \in SharedHolders /\ op[t] \in WriteOps /\ ~after[t]
        /\ closed /\ chClosed /\ muR = 1

\* C17: the queue never holds more records than its capacity, and no step
\* loses or duplicates a record.  Counting, for every record, its copies in
\* the queue and in the hands of Reads about to return it: the count goes up
\* by one only when a writer's enqueue of that record is accepted (which a
\* WritePackets call counts in n, and only then), and goes down only by one
\* Read call returning it or one Drain removing and counting it.  So a
\* record that was accepted is queued, or held or returned by one Read, or
\* was counted by one Drain.
Records == {PacketInfo(t, j) : t \in Procs, j \in 0..(MaxBatch - 1)}
Copies(p) ==
    Cardinality({j \in 1..Len(ch) : ch[j] = p})
        + Cardinality({t \in Procs : op[t] = "Read" /\ pc[t] = "ret" /\ ret[t].pkt = p})
ReturnedNow(p) ==
    Cardinality({t \in Procs :
        op[t] = "Read" /\ pc[t] = "ret" /\ pc'[t] = "idle" /\ ret[t].pkt = p})
DrainedNow(p) ==
    Cardinality({t \in Procs :
        op[t] = "Drain" /\ n'[t] = n[t] + 1 /\ ch # <<>> /\ Head(ch) = p})
CountedNow(p) ==
    \E t \in Procs :
        op[t] = "WritePackets" /\ n'[t] = n[t] + 1 /\ p = PacketInfo(t, i[t])
SendsNow(p) ==
    \E t \in Procs :
        /\ op[t] \in WriteOps /\ pc[t] \in {"send", "loop"} /\ Steps(t)
        /\ p = PacketInfo(t, i[t])

C17_RecordsConserved ==
    /\ [](Len(ch) <= cap)
    /\ [][\A p \in Records :
            \/ /\ Copies(p)' + ReturnedNow(p) + DrainedNow(p) = Copies(p)
               /\ ~CountedNow(p)
            \/ /\ Copies(p)' + ReturnedNow(p) + DrainedNow(p) = Copies(p) + 1
               /\ SendsNow(p)
               /\ (\E t \in Procs : op[t] = "WritePackets" /\ Steps(t)) => CountedNow(p)]_vars

\* Of the two records of a WritePackets call, one is in the hands of a Read
\* about to return it and the other has been removed and counted by a Drain
\* running at the same time; the open queue is empty.
C17_Witness ==
    \E t \in Procs : \E u \in Procs : \E w \in Procs :
        /\ op[t] = "Read" /\ pc[t] = "ret" /\ ret[t].pkt = PacketInfo(w, 0)
        /\ op[u] = "Drain" /\ n[u] = 1
        /\ ch = <<>> /\ ~chClosed /\ cap = MaxBatch

\* C18: no enqueue is attempted on a closed queue.  While the queue is closed
\* no write call is between its check of e.closed and the end of its
\* enqueues, so no send on a closed channel ends the process; while a Close
\* is closing the queue no write call holds the shared lock; and once a Close
\* has returned the queue never grows.
C18_NoSendAfterClose ==
    /\ [](fatal # "send on closed channel")
    /\ [](\A t \in Procs :
            (op[t] \in WriteOps /\ pc[t] \in {"send", "loop"}) => ~chClosed)
    /\ [](\A u \in Procs :
            (op[u] = "Close" /\ pc[u] \in {"closech", "setclosed"})
                => SharedHolders = {})
    /\ [][closeReturned => Len(ch') <= Len(ch)]_vars

\* A Close waits for the exclusive hold while a WritePackets call, inside its
\* shared hold, is in the middle of its descriptor loop on the open queue.
C18_Witness ==
    \E t \in Procs : \E u \in Procs :
        /\ op[u] = "Close" /\ pc[u] = "lockwait"
        /\ op[t] = "WritePackets" /\ pc[t] = "loop" /\ n[t] = 1 /\ i[t] = 1 /\ K[t] = 2
        /\ ~chClosed

\* C19 as stated: with every goroutine scheduled fairly and the dispatcher's
\* delivery returning whenever the calls it makes return, every
\* InjectLinkAddr, WritePacket and Close call returns, also when the delivery
\* calls WritePacket on the same endpoint while a Close waits for e.mu.
C19_GuardNeverDeadlocks ==
    \A t \in Procs :
        (op[t] \in {"InjectLinkAddr", "WritePacket", "Close"}) ~> (op[t] = "none")
=============================================================================
